---- MODULE Spec2Model ----
(***************************************************************************)
(* ATMEGA32U4 Timer/Counter1 in CTC mode (src/main.c).                     *)
(*                                                                         *)
(* The program is main() (clock prescaler, Counter_init, sei, DDRD, the    *)
(* polling loop), the interrupt service routine ISR(TIMER1_COMPA_vect)     *)
(* and the Timer/Counter1 hardware that raises the compare-match flag.     *)
(*                                                                         *)
(* count_ms is a volatile 16-bit unsigned int on an 8-bit CPU: main reads  *)
(* and writes it one byte at a time and the handler may run between the    *)
(* two bytes; the order of the two bytes is the compiler's choice and is   *)
(* left open at every access.                                              *)
(*                                                                         *)
(* Three specifications share the state:                                   *)
(*   Spec        the program with the timer abstracted to its compare      *)
(*               matches: two matches are at least MinSteps program steps  *)
(*               apart (8 * (OCR1A + 1) CPU cycles in the hardware);       *)
(*               FairSpec is Spec with the timer, the handler and the loop *)
(*               never stopping;                                           *)
(*   SpecTimer   start-up and the handler against the timer counted CPU    *)
(*               cycle by CPU cycle (prescaler, TCNT1, OCR1A, OCF1A);      *)
(*   SpecHarness the program with the timer silent and the handler called  *)
(*               by a test bench between complete passes of the loop.      *)
(***************************************************************************)
EXTENDS Integers, Naturals, Sequences, FiniteSets, TLC

VARIABLES
    pc,          \* position of main(): one label per statement / byte access
    count_ms,    \* line 50: volatile unsigned int count_ms
    ld,          \* first byte latched by a 16-bit load of count_ms in progress
    st,          \* which byte a 16-bit store to count_ms in progress wrote first
    CLKPR,       \* clock prescale register
    TCCR1A,      \* Timer/Counter1 control register A
    TCCR1B,      \* Timer/Counter1 control register B
    TIMSK1,      \* Timer/Counter1 interrupt mask register
    OCR1A,       \* output compare register 1 A (16 bit)
    TCNT1,       \* Timer/Counter1 running count (16 bit)
    SREG_I,      \* global interrupt enable flag
    OCF1A,       \* compare-match-A flag of TIFR1: the one pending interrupt
    DDRD,        \* port D data direction register
    PORTD,       \* port D data register
    presc,       \* timer prescaler phase, CPU cycles since the last timer clock
    elapsed,     \* program steps since the last compare match (saturating)
    \* observers: they record history and never influence the program
    lastWriteChanged,  \* did the last write of PORTD by the loop change PORTD
    ticksSinceReset,   \* handler executions since main last reset count_ms
    ticksSinceToggle,  \* handler executions since PORTD last changed
    everToggled,       \* PORTD has changed at least once
    matchesSinceIsr,   \* compare matches since the handler last ran
    clocksSinceMatch,  \* timer clocks since the last compare match, -1: none yet
    lastPeriod,        \* timer clocks between the last two compare matches, 0: none
    injected,          \* test bench: handler calls injected so far
    toggles,           \* test bench: changes of PORTD seen so far
    passDone,          \* a complete pass of the loop has run since the last tick
    if1Matched,        \* line 75 compared count_ms equal to 999 in this pass
    if1Taken,          \* lines 76-77 have executed in this pass
    atLoad1,           \* count_ms when the first byte of the load in progress was read
    ticksInLoad,       \* handler executions since that first byte was read
    missed,            \* the last load compared unequal although count_ms held 999
    pinTracked         \* the last branch executed was the first one (lines 76-77)

cpu   == <<pc, ld, st>>
regs  == <<CLKPR, TCCR1A, TCCR1B, TIMSK1, OCR1A, TCNT1, SREG_I, OCF1A, DDRD, PORTD>>
tmr   == <<presc, elapsed>>
hist  == <<lastWriteChanged, ticksSinceReset, ticksSinceToggle, everToggled,
           matchesSinceIsr, clocksSinceMatch, lastPeriod, injected, toggles, passDone>>
passObs == <<if1Matched, if1Taken>>
loadObs == <<atLoad1, ticksInLoad, missed>>
obs   == <<hist, passObs, loadObs, pinTracked>>
vars  == <<cpu, count_ms, regs, tmr, obs>>

----------------------------------------------------------------------------
(* Bounds of the model *)

\* Program steps after which the time since the last compare match is no
\* longer counted.  The hardware leaves 8 * (OCR1A + 1) CPU cycles between
\* two matches; the model lets a match follow after Horizon steps already.
Horizon == 12
\* Upper bound on the CPU cycles one modelled program step takes.
MaxStepCycles == 8
\* Saturation of the observers that count handler executions.
TickCap == 1001
\* SpecTimer: handler executions followed.
MaxTimerTicks == 3
\* SpecHarness: number of 999-tick rounds the test bench injects.
MaxRounds == 3

----------------------------------------------------------------------------
(* Program constants *)

CPU_8MHz   == 1      \* line 29
CLKPCE     == 128    \* line 23: CLKPR = 0x80
CS11       == 1      \* line 111: TCCR1B bit 1
CS12       == 2      \* line 111: TCCR1B bit 2
CpuHz      == 8000000 \* lines 29, 66: CPU_PRESCALE(CPU_8MHz)
WGM12      == 3      \* line 111: TCCR1B bit 3
WGM13      == 4      \* line 111: TCCR1B bit 4
OCIE1A     == 1      \* line 134: TIMSK1 bit 1
PD6        == 6      \* line 71: Teensy LED
CompareValue == 1000 \* line 151: OCR1A = 1000
Threshold  == 999    \* lines 75, 79: count_ms == 999
CtcMode    == 4      \* lines 87-88: WGM13..WGM10 = 0100, CTC on OCR1A
WordMod    == 65536  \* line 50: unsigned int is 16 bits wide on the AVR
ByteMod    == 256

----------------------------------------------------------------------------
(* Bit and byte arithmetic of the 8-bit registers *)

Pow2(b) == 2 ^ b

Bit(r, b) == (r \div Pow2(b)) % 2

\* r | m
Or8(r, m) ==
    LET f[b \in 0..8] ==
            IF b = 8 THEN 0
            ELSE (IF Bit(r, b) = 1 \/ Bit(m, b) = 1 THEN Pow2(b) ELSE 0) + f[b + 1]
    IN  f[0]

\* r & m
And8(r, m) ==
    LET f[b \in 0..8] ==
            IF b = 8 THEN 0
            ELSE (IF Bit(r, b) = 1 /\ Bit(m, b) = 1 THEN Pow2(b) ELSE 0) + f[b + 1]
    IN  f[0]

\* ~m
Not8(m) == (ByteMod - 1) - m

Lo(w) == w % ByteMod
Hi(w) == w \div ByteMod
Word(hi, lo) == hi * ByteMod + lo

ByteOf(w, which) == IF which = "lo" THEN Lo(w) ELSE Hi(w)
Other(which) == IF which = "lo" THEN "hi" ELSE "lo"

\* w with one of its bytes replaced by b
WithByte(w, which, b) ==
    IF which = "lo" THEN Word(Hi(w), b) ELSE Word(b, Lo(w))

Min(a, b) == IF a < b THEN a ELSE b

Sat(n, cap) == Min(n + 1, cap)

----------------------------------------------------------------------------
(* Timer/Counter1 as the registers configure it *)

\* CS12..CS10 of TCCR1B
ClockSelect == TCCR1B % 8

\* WGM13..WGM10: two bits in TCCR1B, two in TCCR1A
WaveformMode ==
    8 * Bit(TCCR1B, WGM13) + 4 * Bit(TCCR1B, WGM12) + (TCCR1A % 4)

\* CPU cycles per timer clock for the clock select in force (0: stopped)
PrescaleOf(cs) ==
    CASE cs = 1 -> 1
      [] cs = 2 -> 8
      [] cs = 3 -> 64
      [] cs = 4 -> 256
      [] cs = 5 -> 1024
      [] OTHER  -> 0

TimerRunning == PrescaleOf(ClockSelect) > 0

\* In CTC mode the count runs 0 .. OCR1A and the match clears it: OCR1A + 1
\* timer clocks from match to match.
Top == IF WaveformMode = CtcMode THEN OCR1A ELSE WordMod - 1

CyclesPerMatch == PrescaleOf(ClockSelect) * (Top + 1)

\* Program steps that at least pass between two compare matches
MinSteps == Min(Horizon, CyclesPerMatch \div MaxStepCycles)

\* Variant: the global interrupt enable is not consulted
IsrPendingIgnoresI == Bit(TIMSK1, OCIE1A) = 1 /\ OCF1A = 1

\* An interrupt is taken when it is enabled globally (sei, line 68) and for
\* the compare match (line 144) and its flag is set
IsrPending == SREG_I = 1 /\ Bit(TIMSK1, OCIE1A) = 1 /\ OCF1A = 1

NoLoad == [first |-> "none", byte |-> 0]

\* Saturation of the observer that counts timer clocks
ClockCap == CompareValue + 2

----------------------------------------------------------------------------
(* Initial state: the microcontroller after reset *)

Init ==
    /\ pc = "clkpr_en"
    /\ count_ms = 0
    /\ ld = NoLoad
    /\ st = "none"
    /\ CLKPR = 0 /\ TCCR1A = 0 /\ TCCR1B = 0 /\ TIMSK1 = 0
    /\ OCR1A = 0 /\ TCNT1 = 0 /\ SREG_I = 0 /\ OCF1A = 0
    /\ DDRD = 0 /\ PORTD = 0
    /\ presc = 0
    /\ elapsed = Horizon
    /\ lastWriteChanged = FALSE
    /\ ticksSinceReset = 0
    /\ ticksSinceToggle = 0
    /\ everToggled = FALSE
    /\ matchesSinceIsr = 0
    /\ clocksSinceMatch = -1
    /\ lastPeriod = 0
    /\ injected = 0
    /\ toggles = 0
    /\ passDone = FALSE
    /\ if1Matched = FALSE
    /\ if1Taken = FALSE
    /\ atLoad1 = 0
    /\ ticksInLoad = 0
    /\ missed = FALSE
    /\ pinTracked = FALSE

----------------------------------------------------------------------------
(* main(): start-up, lines 66-71 and Counter_init, lines 92-155 *)

\* One step of main() from label p to label q.  A pending, enabled interrupt
\* is served before the next instruction of main.
MainStep(p, q) ==
    /\ pc = p
    /\ ~IsrPending
    /\ pc' = q
    /\ elapsed' = Min(elapsed + 1, Horizon)
    /\ UNCHANGED presc

\* line 66, CPU_PRESCALE: CLKPR = 0x80
ClkprEnable ==
    /\ MainStep("clkpr_en", "clkpr_set")
    /\ CLKPR' = CLKPCE
    /\ UNCHANGED <<ld, st, count_ms, TCCR1A, TCCR1B, TIMSK1, OCR1A, TCNT1,
                   SREG_I, OCF1A, DDRD, PORTD, obs>>

\* line 66, CPU_PRESCALE: CLKPR = CPU_8MHz; then main calls Counter_init
ClkprSet ==
    /\ MainStep("clkpr_set", "ci_tccr1a")
    /\ CLKPR' = CPU_8MHz
    /\ UNCHANGED <<ld, st, count_ms, TCCR1A, TCCR1B, TIMSK1, OCR1A, TCNT1,
                   SREG_I, OCF1A, DDRD, PORTD, obs>>

\* line 107: TCCR1A |= 0x00
Tccr1aMask == 0
CiTccr1a ==
    /\ MainStep("ci_tccr1a", "ci_tccr1b")
    /\ TCCR1A' = Or8(TCCR1A, Tccr1aMask)
    /\ UNCHANGED <<ld, st, count_ms, CLKPR, TCCR1B, TIMSK1, OCR1A, TCNT1,
                   SREG_I, OCF1A, DDRD, PORTD, obs>>

\* Variant: the clock select of the "256 prescaler" the comment speaks of
Tccr1bMaskCs12 == Or8(Pow2(CS12), Pow2(WGM12))

\* line 130: TCCR1B |= ((1<<CS11)|(1<<WGM12)); the timer clock starts here
Tccr1bMask == Or8(Pow2(CS11), Pow2(WGM12))
CiTccr1b ==
    /\ MainStep("ci_tccr1b", "ci_timsk1")
    /\ TCCR1B' = Or8(TCCR1B, Tccr1bMask)
    /\ UNCHANGED <<ld, st, count_ms, CLKPR, TCCR1A, TIMSK1, OCR1A, TCNT1,
                   SREG_I, OCF1A, DDRD, PORTD, obs>>

\* line 144: TIMSK1 |= (1<<OCIE1A)
Timsk1Mask == Pow2(OCIE1A)
CiTimsk1 ==
    /\ MainStep("ci_timsk1", "ci_ocr1a")
    /\ TIMSK1' = Or8(TIMSK1, Timsk1Mask)
    /\ UNCHANGED <<ld, st, count_ms, CLKPR, TCCR1A, TCCR1B, OCR1A, TCNT1,
                   SREG_I, OCF1A, DDRD, PORTD, obs>>

\* line 151: OCR1A = 1000 (a 16-bit I/O register: both bytes change at once)
CiOcr1a ==
    /\ MainStep("ci_ocr1a", "ci_tcnt1")
    /\ OCR1A' = CompareValue
    /\ clocksSinceMatch' = -1
    /\ lastPeriod' = 0
    /\ UNCHANGED <<ld, st, count_ms, CLKPR, TCCR1A, TCCR1B, TIMSK1, TCNT1,
                   SREG_I, OCF1A, DDRD, PORTD,
                   lastWriteChanged, ticksSinceReset, ticksSinceToggle, everToggled,
                   matchesSinceIsr, injected, toggles, passDone,
                   passObs, loadObs, pinTracked>>

\* line 154: TCNT1 = 0, the last statement of Counter_init, which returns to
\* line 68.  The count restarts, so a full period passes before the next match.
CiTcnt1 ==
    /\ pc = "ci_tcnt1"
    /\ ~IsrPending
    /\ pc' = "sei"
    /\ TCNT1' = 0
    /\ elapsed' = 0
    /\ clocksSinceMatch' = -1
    /\ lastPeriod' = 0
    /\ UNCHANGED <<ld, st, count_ms, CLKPR, TCCR1A, TCCR1B, TIMSK1, OCR1A,
                   SREG_I, OCF1A, DDRD, PORTD, presc,
                   lastWriteChanged, ticksSinceReset, ticksSinceToggle, everToggled,
                   matchesSinceIsr, injected, toggles, passDone,
                   passObs, loadObs, pinTracked>>

\* line 68: sei()
Sei ==
    /\ MainStep("sei", "ddrd")
    /\ SREG_I' = 1
    /\ UNCHANGED <<ld, st, count_ms, CLKPR, TCCR1A, TCCR1B, TIMSK1, OCR1A, TCNT1,
                   OCF1A, DDRD, PORTD, obs>>

\* line 71: DDRD |= (1<<PD6); then the loop of line 72 is entered
Ddrd ==
    /\ MainStep("ddrd", "if1_ld1")
    /\ DDRD' = Or8(DDRD, Pow2(PD6))
    /\ UNCHANGED <<ld, st, count_ms, CLKPR, TCCR1A, TCCR1B, TIMSK1, OCR1A, TCNT1,
                   SREG_I, OCF1A, PORTD, obs>>

Startup ==
    \/ ClkprEnable \/ ClkprSet
    \/ CiTccr1a \/ CiTccr1b \/ CiTimsk1 \/ CiOcr1a \/ CiTcnt1
    \/ Sei \/ Ddrd

StartupLabels ==
    {"clkpr_en", "clkpr_set", "ci_tccr1a", "ci_tccr1b", "ci_timsk1", "ci_ocr1a",
     "ci_tcnt1", "sei", "ddrd"}

LoopLabels ==
    {"if1_ld1", "if1_ld2", "if1_portd", "if1_set", "if1_st1", "if1_st2",
     "if2_ld1", "if2_ld2", "if2_clr", "if2_st1", "if2_st2"}

----------------------------------------------------------------------------
(* main(): the polling loop, lines 72-83 *)

\* First byte of a 16-bit load of count_ms
Load1(p, q) ==
    /\ MainStep(p, q)
    /\ \E w \in {"lo", "hi"} : ld' = [first |-> w, byte |-> ByteOf(count_ms, w)]
    /\ atLoad1' = count_ms
    /\ ticksInLoad' = 0
    /\ UNCHANGED <<st, count_ms, regs, hist, passObs, missed, pinTracked>>

\* The value a 16-bit load delivers: the latched byte and the other byte as
\* it is in memory now
Loaded ==
    IF ld.first = "lo" THEN Word(Hi(count_ms), ld.byte) ELSE Word(ld.byte, Lo(count_ms))

\* Variant: the comparison is made with 511, the value a load torn by the
\* carry from 255 to 256 delivers
MatchesCarryValue(v) == v = 2 * ByteMod - 1

\* Variant: the comparison is made with 1000
MatchesOffByOne(v) == v = Threshold + 1

\* count_ms == 999
Matches(v) == v = Threshold

\* Variant: line 75 does not look at the port
PortdIgnored == TRUE

\* !PORTD
PortdIsZero == PORTD = 0

\* Second byte of the load and the comparison with 999.  endsPass: this is
\* the check of line 79, whose branch not taken leads back to the top of the
\* loop; otherwise it is the check of line 75.
Load2(p, qThen, qElse, endsPass) ==
    /\ MainStep(p, IF Matches(Loaded) THEN qThen ELSE qElse)
    /\ ld' = NoLoad
    /\ passDone' = IF endsPass /\ ~Matches(Loaded) THEN TRUE ELSE passDone
    /\ if1Matched' = IF endsPass
                     THEN (IF Matches(Loaded) THEN if1Matched ELSE FALSE)
                     ELSE Matches(Loaded)
    /\ if1Taken' = IF endsPass /\ ~Matches(Loaded) THEN FALSE ELSE if1Taken
    /\ missed' = (~Matches(Loaded) /\ (Matches(atLoad1) \/ Matches(count_ms)))
    /\ atLoad1' = 0
    /\ ticksInLoad' = 0
    /\ UNCHANGED <<st, count_ms, regs,
                   lastWriteChanged, ticksSinceReset, ticksSinceToggle, everToggled,
                   matchesSinceIsr, clocksSinceMatch, lastPeriod, injected, toggles,
                   pinTracked>>

\* A write of PORTD by the loop (sbi / cbi: one instruction)
PinWrite(p, q, value) ==
    /\ MainStep(p, q)
    /\ PORTD' = value
    /\ lastWriteChanged' = (value # PORTD)
    /\ ticksSinceToggle' = IF value # PORTD THEN 0 ELSE ticksSinceToggle
    /\ everToggled' = (everToggled \/ value # PORTD)
    /\ UNCHANGED <<ld, st, count_ms, CLKPR, TCCR1A, TCCR1B, TIMSK1, OCR1A, TCNT1,
                   SREG_I, OCF1A, DDRD,
                   ticksSinceReset, matchesSinceIsr, clocksSinceMatch, lastPeriod,
                   injected, passDone, if1Matched, loadObs>>

\* count_ms = 0
ResetValue == 0

\* First byte of the 16-bit store count_ms = 0
Store1(p, q) ==
    /\ MainStep(p, q)
    /\ \E w \in {"lo", "hi"} :
          /\ count_ms' = WithByte(count_ms, w, ByteOf(ResetValue, w))
          /\ st' = w
    /\ UNCHANGED <<ld, regs, obs>>

\* Second byte of the store: the reset is complete
Store2(p, q, endsPass) ==
    /\ MainStep(p, q)
    /\ count_ms' = WithByte(count_ms, Other(st), ByteOf(ResetValue, Other(st)))
    /\ st' = "none"
    /\ ticksSinceReset' = 0
    /\ passDone' = IF endsPass THEN TRUE ELSE passDone
    /\ if1Matched' = IF endsPass THEN FALSE ELSE if1Matched
    /\ if1Taken' = IF endsPass THEN FALSE ELSE if1Taken
    /\ UNCHANGED <<ld, regs,
                   lastWriteChanged, ticksSinceToggle, everToggled,
                   matchesSinceIsr, clocksSinceMatch, lastPeriod, injected, toggles,
                   loadObs, pinTracked>>

\* line 75: if(count_ms == 999 && !PORTD)
If1Load1 == Load1("if1_ld1", "if1_ld2")
If1Load2 == Load2("if1_ld2", "if1_portd", "if2_ld1", FALSE)
If1Portd ==
    /\ MainStep("if1_portd", IF PortdIsZero THEN "if1_set" ELSE "if2_ld1")
    /\ UNCHANGED <<ld, st, count_ms, regs, obs>>

\* Variant: line 76 drives a second pin of the port as well
AssertedWithBit0 == Or8(PORTD, Pow2(PD6) + 1)

\* line 76: PORTD |= (1<<PD6)
AssertedPortd == Or8(PORTD, Pow2(PD6))

\* Variant: the first branch leaves the counter as it is
If1SetPinNoReset ==
    /\ PinWrite("if1_set", "if2_ld1", AssertedPortd)
    /\ if1Taken' = TRUE
    /\ pinTracked' = TRUE

If1SetPin ==
    /\ PinWrite("if1_set", "if1_st1", AssertedPortd)
    /\ if1Taken' = TRUE
    /\ pinTracked' = TRUE

If1Set == If1SetPin /\ UNCHANGED toggles

\* line 77: count_ms = 0
If1Store1 == Store1("if1_st1", "if1_st2")
If1Store2 == Store2("if1_st2", "if2_ld1", FALSE)

\* line 79: if(count_ms == 999)
If2Load1 == Load1("if2_ld1", "if2_ld2")
If2Load2 == Load2("if2_ld2", "if2_clr", "if1_ld1", TRUE)

\* Variant: the mask names the neighbouring bit
DeassertedWrongBit == And8(PORTD, Not8(Pow2(PD6 + 1)))

\* line 80: PORTD &= ~(1<<PD6)
DeassertedPortd == And8(PORTD, Not8(Pow2(PD6)))

If2ClearPin ==
    /\ PinWrite("if2_clr", "if2_st1", DeassertedPortd)
    /\ pinTracked' = FALSE
    /\ UNCHANGED if1Taken

If2Clear == If2ClearPin /\ UNCHANGED toggles

\* line 81: count_ms = 0; line 83: back to the top of the loop
If2Store1 == Store1("if2_st1", "if2_st2")
If2Store2 == Store2("if2_st2", "if1_ld1", TRUE)

\* The steps of the loop that do not write PORTD
LoopQuiet ==
    \/ If1Load1 \/ If1Load2 \/ If1Portd \/ If1Store1 \/ If1Store2
    \/ If2Load1 \/ If2Load2 \/ If2Store1 \/ If2Store2

Loop == LoopQuiet \/ If1Set \/ If2Clear

Main == Startup \/ Loop

----------------------------------------------------------------------------
(* ISR(TIMER1_COMPA_vect), lines 59-61 *)

\* Variant: the handler counts every tick twice
IncrementTwice(c) == (c + 2) % WordMod

\* count_ms ++
Increment(c) == (c + 1) % WordMod

\* Variant: the handler also drives the pin
HandlerBodyWritesPin ==
    /\ count_ms' = Increment(count_ms)
    /\ PORTD' = Or8(PORTD, Pow2(PD6))
    /\ UNCHANGED <<CLKPR, TCCR1A, TCCR1B, TIMSK1, OCR1A, TCNT1, DDRD>>
    /\ ticksSinceReset' = Sat(ticksSinceReset, TickCap)
    /\ ticksSinceToggle' = Sat(ticksSinceToggle, TickCap)
    /\ ticksInLoad' = IF ld # NoLoad THEN Sat(ticksInLoad, 2) ELSE ticksInLoad

\* The body of the handler; it runs to completion (interrupts are disabled
\* while a handler runs).
HandlerBody ==
    /\ count_ms' = Increment(count_ms)
    /\ UNCHANGED <<CLKPR, TCCR1A, TCCR1B, TIMSK1, OCR1A, TCNT1, DDRD, PORTD>>
    /\ ticksSinceReset' = Sat(ticksSinceReset, TickCap)
    /\ ticksSinceToggle' = Sat(ticksSinceToggle, TickCap)
    /\ ticksInLoad' = IF ld # NoLoad THEN Sat(ticksInLoad, 2) ELSE ticksInLoad

\* The interrupt is taken: the hardware clears OCF1A and runs the handler
TickISR ==
    /\ IsrPending
    /\ OCF1A' = 0
    /\ HandlerBody
    /\ matchesSinceIsr' = 0
    /\ UNCHANGED <<cpu, SREG_I, tmr,
                   lastWriteChanged, everToggled, clocksSinceMatch, lastPeriod,
                   injected, toggles, passDone,
                   passObs, atLoad1, missed, pinTracked>>

----------------------------------------------------------------------------
(* Timer/Counter1, abstracted to its compare matches (Spec) *)

\* TCNT1 has reached OCR1A: the hardware sets OCF1A.  A flag that is still
\* set absorbs the match.
CompareMatch ==
    /\ TimerRunning
    /\ elapsed >= MinSteps
    /\ OCF1A' = 1
    /\ elapsed' = 0
    /\ matchesSinceIsr' = Min(matchesSinceIsr + 1, 2)
    /\ UNCHANGED <<cpu, count_ms, CLKPR, TCCR1A, TCCR1B, TIMSK1, OCR1A, TCNT1,
                   SREG_I, DDRD, PORTD, presc,
                   lastWriteChanged, ticksSinceReset, ticksSinceToggle, everToggled,
                   clocksSinceMatch, lastPeriod, injected, toggles, passDone,
                   passObs, loadObs, pinTracked>>

Next == Main \/ TickISR \/ CompareMatch

Spec == Init /\ [][Next]_vars

\* The loop never blocks, the timer never stops and a pending interrupt is
\* always taken.
FairSpec ==
    Spec /\ WF_vars(Main) /\ WF_vars(TickISR) /\ WF_vars(CompareMatch)

----------------------------------------------------------------------------
(* Timer/Counter1 CPU cycle by CPU cycle (SpecTimer) *)

\* One CPU cycle: the prescaler advances; every PrescaleOf(ClockSelect)
\* cycles the timer is clocked.  A pending, enabled interrupt is taken first.
\* The instructions of main take any number of cycles.  At a timer clock a count equal to OCR1A sets
\* OCF1A, a count equal to Top is cleared, any other count advances.
CpuCycle ==
    /\ TimerRunning
    /\ ~IsrPending
    /\ IF presc + 1 < PrescaleOf(ClockSelect)
       THEN /\ presc' = presc + 1
            /\ UNCHANGED <<TCNT1, OCF1A, matchesSinceIsr, clocksSinceMatch, lastPeriod>>
       ELSE /\ presc' = 0
            /\ TCNT1' = IF TCNT1 = Top THEN 0 ELSE (TCNT1 + 1) % WordMod
            /\ IF TCNT1 = OCR1A
               THEN /\ OCF1A' = 1
                    /\ matchesSinceIsr' = Min(matchesSinceIsr + 1, 2)
                    /\ lastPeriod' = IF clocksSinceMatch >= 0
                                     THEN Sat(clocksSinceMatch, ClockCap)
                                     ELSE lastPeriod
                    /\ clocksSinceMatch' = 0
               ELSE /\ clocksSinceMatch' = IF clocksSinceMatch >= 0
                                           THEN Sat(clocksSinceMatch, ClockCap)
                                           ELSE clocksSinceMatch
                    /\ UNCHANGED <<OCF1A, matchesSinceIsr, lastPeriod>>
    /\ UNCHANGED <<cpu, count_ms, CLKPR, TCCR1A, TCCR1B, TIMSK1, OCR1A,
                   SREG_I, DDRD, PORTD, elapsed,
                   lastWriteChanged, ticksSinceReset, ticksSinceToggle, everToggled,
                   injected, toggles, passDone,
                   passObs, loadObs, pinTracked>>

\* The handler, followed for MaxTimerTicks executions
TimerTickISR == count_ms < MaxTimerTicks /\ TickISR

NextTimer == Startup \/ CpuCycle \/ TimerTickISR

SpecTimer == Init /\ [][NextTimer]_vars

----------------------------------------------------------------------------
(* Test bench: ticks injected between complete passes (SpecHarness) *)

MaxInjected == MaxRounds * Threshold

\* The bench calls the handler when main is at the top of the loop and has
\* run a complete pass since the previous call.
InjectTick ==
    /\ pc = "if1_ld1"
    /\ passDone
    /\ injected < MaxInjected
    /\ HandlerBody
    /\ injected' = injected + 1
    /\ passDone' = FALSE
    /\ UNCHANGED <<cpu, SREG_I, OCF1A, tmr,
                   lastWriteChanged, everToggled, matchesSinceIsr, clocksSinceMatch,
                   lastPeriod, toggles,
                   passObs, atLoad1, missed, pinTracked>>

\* The bench counts the changes of the pin
Counted(value) == IF value # PORTD THEN toggles + 1 ELSE toggles

HarnessIf1Set == If1SetPin /\ toggles' = Counted(AssertedPortd)

HarnessIf2Clear == If2ClearPin /\ toggles' = Counted(DeassertedPortd)

NextHarness == Startup \/ LoopQuiet \/ HarnessIf1Set \/ HarnessIf2Clear \/ InjectTick

SpecHarness == Init /\ [][NextHarness]_vars

----------------------------------------------------------------------------
(* Properties *)

PinHigh == Bit(PORTD, PD6) = 1

ResetLabels == {"if1_st1", "if1_st2", "if2_st1", "if2_st2"}

\* main completes a reset of count_ms (the second byte is stored)
ResetCompletes == pc \in {"if1_st2", "if2_st2"} /\ pc' # pc

\* Counter_init and sei have both completed
PastSei == pc \in LoopLabels \cup {"ddrd"}

TimerConfigured ==
    /\ WaveformMode = CtcMode
    /\ ClockSelect = 2
    /\ OCR1A = CompareValue
    /\ Bit(TIMSK1, OCIE1A) = 1

\* C1: whenever the main loop resets TickCounter (it is at one of the two
\* "count_ms = 0" statements), the pin write of that same branch changed the
\* value of the pin: no reset without a toggle.
C1_ResetOnlyAfterToggle == pc \in ResetLabels => lastWriteChanged

\* C2: with the timer, the handler and the main loop all weakly fair, the pin
\* is HIGH infinitely often and LOW infinitely often.
C2_PinAlternatesForever == ([]<>PinHigh) /\ ([]<>(~PinHigh))

\* C3: TickCounter is in 0..999 in every reachable state.
C3_CounterInRange == count_ms \in 0..Threshold

\* C3 witness: the counter stands at 999 and the loop is about to reset it.
C3_Witness == count_ms = Threshold /\ pc = "if2_st1"

\* C4: with ticks injected only between complete passes, whenever 999*k ticks
\* have been injected and the following pass is complete, the pin has toggled
\* exactly k times (its level is k mod 2) and TickCounter is 0.
C4_RoundsToggle ==
    (pc = "if1_ld1" /\ passDone /\ injected % Threshold = 0)
        => /\ toggles = injected \div Threshold
           /\ count_ms = 0
           /\ Bit(PORTD, PD6) = toggles % 2

\* C4 witness: 1998 ticks injected, two toggles seen, the pin back at LOW.
C4_Witness ==
    /\ pc = "if1_ld1" /\ passDone
    /\ injected = 2 * Threshold
    /\ toggles = 2
    /\ PORTD = 0

C6_MatchEveryMillisecond ==
    (PastSei /\ lastPeriod # 0)
        => lastPeriod * 1000 = CpuHz \div PrescaleOf(ClockSelect)

\* C7: every compare match is served by exactly one handler execution (no
\* match meets a flag that is still set), and TickCounter changes only by the
\* handler adding exactly 1 or by main storing a byte of its reset.
C7_OneRunPerMatch ==
    /\ [](matchesSinceIsr <= 1)
    /\ [][count_ms' # count_ms
            => \/ count_ms' = count_ms + 1 /\ pc' = pc
               \/ pc \in ResetLabels /\ pc' # pc]_vars

\* C8: a step that takes the interrupt (OCF1A goes from 1 to 0) leaves PORTD,
\* DDRD and the timer configuration unchanged, and every step that changes
\* PORTD is the main loop executing line 76 or line 80.
C8_HandlerFrame ==
    [][/\ (OCF1A = 1 /\ OCF1A' = 0)
            => UNCHANGED <<PORTD, DDRD, CLKPR, TCCR1A, TCCR1B, TIMSK1, OCR1A, TCNT1>>
       /\ PORTD' # PORTD => (pc \in {"if1_set", "if2_clr"} /\ pc' # pc)]_vars

\* C8 witness: the handler has run while the pin is HIGH and the pin is
\* still HIGH.
C8_Witness == PinHigh /\ count_ms = 5 /\ ticksSinceToggle = 5

\* C9: the clock prescaler is set before Counter_init starts, the timer is
\* fully configured before sei, the handler has not run (TickCounter is 0)
\* until sei has executed, the pin direction is set only after sei, and the
\* pin is an output in every pass of the loop.
C9_StartupOrder ==
    /\ pc \notin {"clkpr_en", "clkpr_set"} => CLKPR = CPU_8MHz
    /\ pc \in {"clkpr_en", "clkpr_set"} => (TCCR1B = 0 /\ TIMSK1 = 0 /\ OCR1A = 0)
    /\ SREG_I = 1 <=> PastSei
    /\ PastSei => TimerConfigured
    /\ ~PastSei => (count_ms = 0 /\ ticksSinceReset = 0)
    /\ Bit(DDRD, PD6) = 1 <=> pc \in LoopLabels

\* C9 witness: the handler has run once, after sei and before the pin
\* direction is set.
C9_Witness == pc = "ddrd" /\ count_ms = 1 /\ SREG_I = 1 /\ DDRD = 0

InSecondBranch == pc \in {"if2_clr", "if2_st1", "if2_st2"}

\* C11: in one pass of the loop at most one branch executes: the second
\* branch is never entered in a pass in which the first branch has executed,
\* with the handler free to run between the two ifs.
C11_OneBranchPerPass == InSecondBranch => ~if1Taken

\* C11 witness: the first branch has executed and reset the counter, and the
\* check of line 79 of the same pass is reading the counter.
C11_Witness == pc = "if2_ld2" /\ if1Taken /\ PinHigh /\ count_ms = 0

\* main completes a 16-bit load of count_ms and compares the value
LoadCompletes == pc \in {"if1_ld2", "if2_ld2"} /\ pc' # pc

\* The comparison came out equal: main goes on into the if
ComparedEqual == pc' \in {"if1_portd", "if2_clr"}

\* C12: when main reads count_ms as two byte loads with at most one handler
\* execution between them, the comparison comes out equal to 999 only if the
\* counter held 999 at one of the two loads, and a load that compared unequal
\* although the counter held 999 is followed by a load that compares equal:
\* the tick is not hidden for good.
C12_TornReadBenign ==
    [][(LoadCompletes /\ ticksInLoad <= 1)
          => /\ ComparedEqual => (Matches(atLoad1) \/ Matches(count_ms))
             /\ missed => ComparedEqual]_vars

\* C12 witness: the handler made the counter 999 between the two bytes of the
\* load of line 75, which compared unequal; the load of line 79 now has the
\* counter at 999 before it.
C12_Witness ==
    /\ pc = "if2_ld2" /\ missed
    /\ atLoad1 = Threshold /\ count_ms = Threshold /\ ticksInLoad = 0

\* main evaluates !PORTD in line 75
PortdTested == pc = "if1_portd" /\ pc' # pc

\* C13: PORTD is 0 or exactly (1<<PD6) in every reachable state, a boolean
\* set by the first branch and cleared by the second always equals the level
\* of PD6, and whenever line 75 tests !PORTD it enters the first branch
\* exactly if that boolean is false: the program with the boolean in place of
\* the register test takes the same steps.
C13_PortdTestIsPinTest ==
    /\ [](PORTD \in {0, Pow2(PD6)} /\ (pinTracked <=> PinHigh))
    /\ [][PortdTested => (pc' = "if1_set" <=> ~pinTracked)]_vars

\* C13 witness: line 75 has read 999 while the pin is HIGH and is about to
\* test PORTD, which holds (1<<PD6).
C13_Witness ==
    /\ pc = "if1_portd" /\ if1Matched
    /\ PORTD = Pow2(PD6) /\ pinTracked /\ count_ms = Threshold

\* main executes the pin write of a branch (line 76 or line 80)
BranchEntered == pc \in {"if1_set", "if2_clr"} /\ pc' # pc

\* C14: under every interleaving of the handler with the loop, a branch
\* entered while the pin is HIGH writes the pin LOW and the pin keeps that
\* level until the reset of that branch is complete; and the pin goes from LOW
\* to HIGH only by line 76, in a pass whose check of line 75 read 999 and
\* found PORTD equal to 0.
C14_HighResetsToLow ==
    [][/\ (BranchEntered /\ PinHigh) => ~PinHigh'
       /\ pc \in ResetLabels => PORTD' = PORTD
       /\ (~PinHigh /\ PinHigh') => (pc = "if1_set" /\ if1Matched /\ PORTD = 0)]_vars

\* C14 witness: the pin was HIGH, the tick that made the counter 999 came
\* after line 75 had read it, and the second branch has written the pin LOW
\* and is resetting the counter.
C14_Witness ==
    /\ pc = "if2_st2" /\ ~if1Matched /\ lastWriteChanged
    /\ ~PinHigh /\ ticksSinceReset = Threshold

====
